---------------------------- MODULE Spec2Model ----------------------------
(***************************************************************************)
(* Bounded-KV-cache generation (context-compression).                      *)
(*                                                                         *)
(*   src/prompt_compression.py  the three eviction policies                *)
(*   src/generation_utils.py    cache sizing and the generation driver     *)
(*                                                                         *)
(* Conventions.  Python sequences are 0-based, TLA+ sequences 1-based: a   *)
(* Python list l is the TLA+ sequence s with s[i + 1] = l[i]; index values *)
(* stored in a sequence (keep_idxs, input_pos) are the Python ones.        *)
(* Every tensor operation of the policies (mean, pooling, topk, sort,      *)
(* gather) acts along the position axis independently for every (batch,    *)
(* head) pair, so a policy call is modelled on the slice of one head.      *)
(* A real-valued score is a pair <<num, den>> with den > 0.                *)
(***************************************************************************)
EXTENDS Integers, Sequences, FiniteSets, TLC

VARIABLES
    compressor,   \* the PromptCompressor instance: policy and hyperparameters
    call_in,      \* arguments of its __call__: input_pos, k_val, v_val, attn
    call_out,     \* what the call produced: status and returned tensors
    gen_in,       \* arguments of generate() and the model's min_cache_length()
    gen,          \* locals of generate() and of decode_n_tokens(), the pc, and
                  \* the history of emitted tokens (emitted) with, for each,
                  \* whether it was teacher-forced (forced)
    model_calls,  \* the forward calls issued so far: count, last input, last output
    gen_ret,      \* the sequence generate() returned
    decode_call,  \* a call of decode_one_token or of model_forward made on
                  \* its own: arguments, the function called (fn), status and
                  \* the token returned
    ncl,          \* a call of normalize_cache_length: arguments and result
    sizer_in,     \* model.config.n_layer, max_seq_length and the configuration
                  \* as first given to setup_caches
    cache_kwargs, \* the configuration record setup_caches mutates
    setup         \* setup_caches calls made, the outcome of the last one and
                  \* what it passed to model.setup_caches

cvars == <<compressor, call_in, call_out>>

gvars == <<gen_in, gen, model_calls, gen_ret, decode_call>>

svars == <<ncl, sizer_in, cache_kwargs, setup>>

vars == <<compressor, call_in, call_out, gen_in, gen, model_calls, gen_ret,
          decode_call, ncl, sizer_in, cache_kwargs, setup>>

---------------------------------------------------------------------------
(* Bounds of the model *)

\* longest span given to RecentGlobal and L2
MaxSpan == 4
\* largest configured capacity (max_cache_length) of RecentGlobal and L2
MaxCap == 5
\* largest global_tokens
MaxGlobal == 2
\* largest recent_window
MaxWindow == 2
\* longest span given to SnapKV
MaxSnapSpan == 17
\* an attention row distributes AttnScale units (weight w stands for w / AttnScale)
AttnScale == 2

\* longest prompt given to generate
MaxPrompt == 3
\* largest min_cache_length() of the model
MaxMinCache == 3
\* largest max_new_tokens asked of generate
MaxNewTokens == 2
\* longest position span handed to decode_one_token on its own
MaxDecodeSpan == 2

\* fractional cache lengths are k / FracDen, k in 1..FracDen
FracDen == 8
\* largest whole-number cache length asked for
MaxSpecLen == 24
\* largest max_seq_length given to normalize_cache_length
MaxSeqLen == 20
\* largest model.config.n_layer
MaxLayers == 4
\* most cache-length groups in a configuration
MaxGroups == 2
\* most calls of setup_caches on one configuration record
MaxSetupCalls == 2

\* token ids
Vocab == {0, 1}
\* the values a logit takes
LogitLevels == {0, 1}
\* the heads whose slice a call may be given
Heads == {1, 2}
\* the key vectors a cached position may hold (head_dim = 2)
KeyPalette == {<<0, 1>>, <<-1, 0>>, <<2, -1>>}

---------------------------------------------------------------------------
(* Helpers: Python and torch primitives *)

\* list(range(a, b))
RangeSeq(a, b) == [i \in 1..(IF b > a THEN b - a ELSE 0) |-> a + i - 1]

\* torch.arange(0, n)
Arange(n) == RangeSeq(0, n)

SeqToSet(s) == {s[i] : i \in 1..Len(s)}

Min2(a, b) == IF a <= b THEN a ELSE b

Max2(a, b) == IF a >= b THEN a ELSE b

RECURSIVE SumOver(_, _)
\* sum of f[x] for x in S
SumOver(f, S) ==
    IF S = {} THEN 0
    ELSE LET x == CHOOSE y \in S : TRUE IN f[x] + SumOver(f, S \ {x})

RECURSIVE SortedSeq_descending(_)
\* mutant of SortedSeq: the indices left in descending order
SortedSeq_descending(S) ==
    IF S = {} THEN <<>>
    ELSE LET m == CHOOSE x \in S : \A y \in S : x >= y
         IN <<m>> \o SortedSeq_descending(S \ {m})

RECURSIVE SortedSeq(_)
\* tensor.sort(dim=-1).values for a set of distinct integers: ascending
SortedSeq(S) ==
    IF S = {} THEN <<>>
    ELSE LET m == CHOOSE x \in S : \A y \in S : x <= y
         IN <<m>> \o SortedSeq(S \ {m})

RECURSIVE KSubsets(_, _)
\* the subsets of S with exactly k elements
KSubsets(S, k) ==
    IF k = 0 THEN {{}}
    ELSE IF Cardinality(S) < k THEN {}
    ELSE LET x == CHOOSE y \in S : TRUE
         IN {T \cup {x} : T \in KSubsets(S \ {x}, k - 1)} \cup KSubsets(S \ {x}, k)

\* a < b for scores <<num, den>>
ScoreLess(a, b) == a[1] * b[2] < b[1] * a[2]

\* score i strictly precedes score j in the order topk selects by
Better(scores, i, j, largest) ==
    IF largest THEN ScoreLess(scores[j + 1], scores[i + 1])
    ELSE ScoreLess(scores[i + 1], scores[j + 1])

\* tensor.topk(k, dim=-1, largest).indices: every index set torch may return.
\* The k best-scoring positions; which of several equal scores at the cut
\* are taken is not specified by torch, so all choices are outcomes.
\* Only called with k <= Len(scores) (torch raises otherwise).
TopK(scores, k, largest) ==
    LET P == 0..(Len(scores) - 1)
        nBetter(j) == Cardinality({i \in P : Better(scores, i, j, largest)})
        nBetterEq(j) == Cardinality({i \in P : ~Better(scores, j, i, largest)})
        must == {j \in P : nBetterEq(j) <= k}
        tied == {j \in P : nBetter(j) < k} \ must
    IN {must \cup T : T \in KSubsets(tied, k - Cardinality(must))}

\* tensor[..., idxs] / tensor.gather(2, idxs) along the position axis.
\* t is the 1-based sequence of the n cached entries; a negative index
\* counts from the end.
Gather(t, idxs) ==
    [j \in 1..Len(idxs) |->
        t[(IF idxs[j] < 0 THEN idxs[j] + Len(t) ELSE idxs[j]) + 1]]

\* mutant of IndexOutOfRange: a negative index is refused, not wrapped
IndexOutOfRange_no_wrap(idxs, n) == \E j \in 1..Len(idxs) : idxs[j] < 0 \/ idxs[j] >= n

\* indexing with idxs raises IndexError
IndexOutOfRange(idxs, n) == \E j \in 1..Len(idxs) : idxs[j] < -n \/ idxs[j] >= n

NoAttn == <<>>

Failed == [status |-> "failed", keep_idxs |-> <<>>, k_val |-> <<>>,
           v_val |-> <<>>, attn_history |-> <<>>]

Returned(keep, k, v, hist) ==
    [status |-> "returned", keep_idxs |-> keep, k_val |-> k, v_val |-> v,
     attn_history |-> hist]

---------------------------------------------------------------------------
(* Components at rest: a specification of one component holds the others fixed *)

CompressIdle ==
    /\ compressor = [policy |-> "none"]
    /\ call_in = [head |-> 0]
    /\ call_out = [status |-> "idle"]

GenIdle ==
    /\ gen_in = [prompt |-> <<>>]
    /\ gen = [pc |-> "idle"]
    /\ model_calls = [n |-> 0]
    /\ gen_ret = <<>>
    /\ decode_call = [status |-> "idle"]

NormalizeIdle == ncl = [status |-> "idle"]

SetupIdle ==
    /\ sizer_in = [n_layer |-> 0]
    /\ cache_kwargs = [cache_strategy |-> "none"]
    /\ setup = [calls |-> 0, status |-> "idle"]

---------------------------------------------------------------------------
(* src/prompt_compression.py: the eviction policies *)

\* PromptCompressorSnapKV.__init__: self.kernel_size
kernel_size == 5
\* PromptCompressorSnapKV.__init__: self.observation_len
observation_len == 16

\* is_compatible() of the three classes, asserted by PromptCompressor.__init__
is_compatible(policy, head_specific) ==
    IF policy = "recent_global" THEN TRUE ELSE head_specific

\* requires_attn() of the three classes
requires_attn(policy) == policy = "snapkv"

\* mutant of RecentGlobal_keep_idxs: the recent part not moved by global_tokens
RecentGlobal_keep_idxs_unshifted(self, n) ==
    RangeSeq(0, self.global_tokens)
        \o RangeSeq(n - self.max_cache_length, n - self.global_tokens)

\* PromptCompressorRecentGlobal.__call__: the index list handed to torch.tensor
RecentGlobal_keep_idxs(self, n) ==
    RangeSeq(0, self.global_tokens)
        \o RangeSeq(n - self.max_cache_length + self.global_tokens, n)

\* PromptCompressorRecentGlobal.__call__: the set of its outcomes (one)
PromptCompressorRecentGlobal_call(self, in) ==
    LET keep == RecentGlobal_keep_idxs(self, Len(in.input_pos))
    IN  IF Len(keep) # self.max_cache_length THEN {Failed}
        ELSE IF IndexOutOfRange(keep, Len(in.k_val)) THEN {Failed}
        ELSE {Returned(keep, Gather(in.k_val, keep), Gather(in.v_val, keep), <<>>)}

\* attn[:, :, -observation_len:, :].mean(dim=2): the mean over the last
\* query rows of the weight given to each key position, as a score
SnapKV_priority(attn, n) ==
    LET R == Len(attn)
        first == IF R > observation_len THEN R - observation_len + 1 ELSE 1
        rows == first..R
    IN  [j \in 1..n |->
            <<SumOver([q \in rows |-> attn[q][j]], rows), Cardinality(rows)>>]

\* self.pool: AvgPool1d(kernel_size, stride=1, padding=kernel_size // 2,
\* count_include_pad=False): the mean over the in-range neighbours.
\* All scores of priority share one denominator.
SnapKV_pool(priority) ==
    LET n == Len(priority)
        pad == kernel_size \div 2
        outLen == n + 2 * pad - kernel_size + 1
        win(j) == {k \in (j - pad)..(j - pad + kernel_size - 1) : k >= 1 /\ k <= n}
    IN  [j \in 1..outLen |->
            <<SumOver([k \in win(j) |-> priority[k][1]], win(j)),
              priority[j][2] * Cardinality(win(j))>>]

\* mutant of SnapKV_force_window: the observation window is not forced
SnapKV_force_window_omitted(priority) == priority

\* priority[:, :, -observation_len:] = 1.0
SnapKV_force_window(priority) ==
    [j \in 1..Len(priority) |->
        IF j > Len(priority) - observation_len THEN <<AttnScale, 1>>
        ELSE priority[j]]

\* PromptCompressorSnapKV.__call__: the set of its outcomes
PromptCompressorSnapKV_call(self, in) ==
    LET n == Len(in.k_val)
        raw == SnapKV_priority(in.attn, n)
        pooled == SnapKV_pool(raw)
        priority == SnapKV_force_window(pooled)
    IN  IF ~self.head_specific THEN {Failed}
        ELSE IF Len(pooled) # Len(raw) THEN {Failed}
        ELSE IF self.max_cache_length > n THEN {Failed}
        ELSE {Returned(SortedSeq(S),
                       Gather(in.k_val, SortedSeq(S)),
                       Gather(in.v_val, SortedSeq(S)),
                       Gather(raw, SortedSeq(S)))
                : S \in TopK(priority, self.max_cache_length, TRUE)}

\* the square of torch.linalg.vector_norm(k, ord=2): the norm orders the
\* keys as its square does, and only the order is used
NormSq(k) == SumOver([d \in 1..Len(k) |-> k[d] * k[d]], 1..Len(k))

\* float("-inf"): below every norm
NegInf == <<-1, 1>>

\* mutant of L2_locality_mask: the recent window one position short
L2_locality_mask_short(self, input_pos) ==
    [j \in 1..Len(input_pos) |->
        \/ input_pos[j] < self.global_tokens
        \/ input_pos[j] > Len(input_pos) - self.recent_window]

\* PromptCompressorL2.__call__: locality_mask
L2_locality_mask(self, input_pos) ==
    [j \in 1..Len(input_pos) |->
        \/ input_pos[j] < self.global_tokens
        \/ input_pos[j] >= Len(input_pos) - self.recent_window]

\* PromptCompressorL2.__call__: key_norm.masked_fill(locality_mask, -inf)
L2_eviction_scores(self, in) ==
    LET mask == L2_locality_mask(self, in.input_pos)
    IN  [j \in 1..Len(in.k_val) |->
            IF mask[j] THEN NegInf ELSE <<NormSq(in.k_val[j]), 1>>]

\* PromptCompressorL2.__call__: the set of its outcomes
PromptCompressorL2_call(self, in) ==
    LET n == Len(in.k_val)
        scores == L2_eviction_scores(self, in)
    IN  IF self.max_cache_length > n THEN {Failed}
        ELSE {Returned(SortedSeq(S),
                       Gather(in.k_val, SortedSeq(S)),
                       Gather(in.v_val, SortedSeq(S)),
                       <<>>)
                : S \in TopK(scores, self.max_cache_length, FALSE)}

---------------------------------------------------------------------------
(* The inputs of a policy call *)

\* keys and values that differ at every cached position
KeyTag(n) == [i \in 1..n |-> <<i - 1, 1>>]

ValTag(n) == [i \in 1..n |-> <<100 + i - 1>>]

\* One row of causal attention for query q (0-based): a units on key
\* position min(p, q), the rest on the query's own position.
AttnRow(n, q, p, a) ==
    [j \in 1..n |->
        (IF j - 1 = Min2(p, q) THEN a ELSE 0) + (IF j - 1 = q THEN AttnScale - a ELSE 0)]

\* The n x n attention of a prefill: even queries look at p1, odd ones at p2.
AttnMatrix(n, p1, p2, a) ==
    [q \in 1..n |-> AttnRow(n, q - 1, IF (q - 1) % 2 = 0 THEN p1 ELSE p2, a)]

Ready == [status |-> "ready", keep_idxs |-> <<>>, k_val |-> <<>>,
          v_val |-> <<>>, attn_history |-> <<>>]

InitRecentGlobal ==
    \E n \in 1..MaxSpan, c \in 1..MaxCap, g \in 0..MaxGlobal, hs \in BOOLEAN, h \in Heads :
        /\ compressor = [policy |-> "recent_global", head_specific |-> hs,
                         max_cache_length |-> c, global_tokens |-> g,
                         recent_window |-> 0]
        /\ call_in = [head |-> h, input_pos |-> Arange(n), k_val |-> KeyTag(n),
                      v_val |-> ValTag(n), attn |-> NoAttn]

InitSnapKV ==
    \E n \in observation_len..MaxSnapSpan :
    \E c \in (observation_len - 1)..n, p1 \in 0..(n - 1), p2 \in 0..(n - 1),
       a \in 0..AttnScale, h \in Heads :
        /\ compressor = [policy |-> "snapkv", head_specific |-> TRUE,
                         max_cache_length |-> c, global_tokens |-> 0,
                         recent_window |-> 0]
        /\ call_in = [head |-> h, input_pos |-> Arange(n), k_val |-> KeyTag(n),
                      v_val |-> ValTag(n), attn |-> AttnMatrix(n, p1, p2, a)]

\* global_tokens <= max_cache_length: setup_caches asserts it of every layer
InitL2 ==
    \E n \in 1..MaxSpan, c \in 1..MaxCap, g \in 0..MaxGlobal, w \in 0..MaxWindow,
       h \in Heads :
    \E k \in [1..n -> KeyPalette] :
        /\ g <= c
        /\ compressor = [policy |-> "l2", head_specific |-> TRUE,
                         max_cache_length |-> c, global_tokens |-> g,
                         recent_window |-> w]
        /\ call_in = [head |-> h, input_pos |-> Arange(n), k_val |-> k,
                      v_val |-> ValTag(n), attn |-> NoAttn]

InitCompress ==
    /\ InitRecentGlobal \/ InitSnapKV \/ InitL2
    /\ call_out = Ready
    /\ GenIdle
    /\ NormalizeIdle
    /\ SetupIdle

Call_RecentGlobal ==
    /\ call_out.status = "ready"
    /\ compressor.policy = "recent_global"
    /\ call_out' \in PromptCompressorRecentGlobal_call(compressor, call_in)
    /\ UNCHANGED <<compressor, call_in>>
    /\ UNCHANGED <<gvars, svars>>

Call_SnapKV ==
    /\ call_out.status = "ready"
    /\ compressor.policy = "snapkv"
    /\ call_out' \in PromptCompressorSnapKV_call(compressor, call_in)
    /\ UNCHANGED <<compressor, call_in>>
    /\ UNCHANGED <<gvars, svars>>

Call_L2 ==
    /\ call_out.status = "ready"
    /\ compressor.policy = "l2"
    /\ call_out' \in PromptCompressorL2_call(compressor, call_in)
    /\ UNCHANGED <<compressor, call_in>>
    /\ UNCHANGED <<gvars, svars>>

NextCompress == Call_RecentGlobal \/ Call_SnapKV \/ Call_L2

SpecCompress == InitCompress /\ [][NextCompress]_vars

---------------------------------------------------------------------------
(* Claims about the eviction policies, checked under SpecCompress *)

SpanLen == Len(call_in.input_pos)

Capacity == compressor.max_cache_length

KeptSet == SeqToSet(call_out.keep_idxs)

\* the positions L2 protects: index < global_tokens or >= n - recent_window
ProtectedSet ==
    {j \in 0..(SpanLen - 1) :
        j < compressor.global_tokens \/ j >= SpanLen - compressor.recent_window}

\* the last observation_len positions of the span
ObservationWindow == {j \in 0..(SpanLen - 1) : j >= SpanLen - observation_len}

\* C1: whichever of the three policies ran, on a span of length n >= capacity,
\* the keep indices it returned are exactly capacity many, all within
\* 0..n-1, and strictly ascending (hence pairwise distinct).
C1_KeepIdxsExactAscending ==
    (call_out.status = "returned" /\ SpanLen >= Capacity) =>
        /\ Len(call_out.keep_idxs) = Capacity
        /\ \A i \in 1..Len(call_out.keep_idxs) :
                call_out.keep_idxs[i] \in 0..(SpanLen - 1)
        /\ \A i \in 1..(Len(call_out.keep_idxs) - 1) :
                call_out.keep_idxs[i] < call_out.keep_idxs[i + 1]

\* C1 witness: a head-specific policy returned from a span longer than the
\* capacity, so that positions were really evicted.
C1_Witness ==
    /\ call_out.status = "returned"
    /\ compressor.policy = "l2"
    /\ SpanLen > Capacity
    /\ Capacity >= 2
    /\ call_out.keep_idxs # RangeSeq(0, Capacity)

\* C2: RecentGlobal with global_tokens g <= capacity c on a span n >= c
\* returns, and keeps exactly {0..g-1} and {n-(c-g)..n-1} in ascending order;
\* the compressed keys and values are the inputs at those indices in order.
C2_RecentGlobalKeepsEnds ==
    ( /\ compressor.policy = "recent_global"
      /\ call_out.status # "ready"
      /\ compressor.global_tokens <= Capacity
      /\ Capacity <= SpanLen ) =>
        /\ call_out.status = "returned"
        /\ Len(call_out.keep_idxs) = Capacity
        /\ KeptSet = (0..(compressor.global_tokens - 1))
                        \cup ((SpanLen - (Capacity - compressor.global_tokens))..(SpanLen - 1))
        /\ \A i \in 1..(Len(call_out.keep_idxs) - 1) :
                call_out.keep_idxs[i] < call_out.keep_idxs[i + 1]
        /\ Len(call_out.k_val) = Capacity /\ Len(call_out.v_val) = Capacity
        /\ \A i \in 1..Len(call_out.keep_idxs) :
                /\ call_out.k_val[i] = call_in.k_val[call_out.keep_idxs[i] + 1]
                /\ call_out.v_val[i] = call_in.v_val[call_out.keep_idxs[i] + 1]

\* C2 witness: RecentGlobal returned after dropping a middle stretch between
\* a non-empty global part and a non-empty recent part.
C2_Witness ==
    /\ compressor.policy = "recent_global"
    /\ call_out.status = "returned"
    /\ compressor.global_tokens >= 1
    /\ compressor.global_tokens < Capacity
    /\ Capacity < SpanLen

\* C3: SnapKV on a span n >= capacity >= observation_len keeps every one of
\* the last observation_len positions.
C3_SnapKVKeepsObservationWindow ==
    ( /\ compressor.policy = "snapkv"
      /\ call_out.status # "ready"
      /\ SpanLen >= Capacity
      /\ Capacity >= observation_len ) =>
        /\ call_out.status = "returned"
        /\ ObservationWindow \subseteq KeptSet

\* C3 witness: SnapKV evicted a position that received attention although
\* a position of the observation window that received none was kept.
C3_Witness ==
    /\ compressor.policy = "snapkv"
    /\ call_out.status = "returned"
    /\ Capacity >= observation_len
    /\ \E j \in (0..(SpanLen - 1)) \ KeptSet, k \in ObservationWindow :
            /\ SnapKV_priority(call_in.attn, SpanLen)[j + 1][1] > 0
            /\ SnapKV_priority(call_in.attn, SpanLen)[k + 1][1] = 0
            /\ k \in KeptSet

\* C4 as stated: L2, whatever global_tokens, recent_window and capacity are,
\* keeps every protected position of a span n >= capacity.
C4_Original_L2KeepsProtected ==
    ( /\ compressor.policy = "l2"
      /\ call_out.status = "returned"
      /\ SpanLen >= Capacity ) =>
        ProtectedSet \subseteq KeptSet

\* C4 amended: L2 keeps every protected position of a span n >= capacity
\* whenever the protected positions are at most capacity many.
C4_L2KeepsProtectedWhenTheyFit ==
    ( /\ compressor.policy = "l2"
      /\ call_out.status # "ready"
      /\ SpanLen >= Capacity
      /\ Cardinality(ProtectedSet) <= Capacity ) =>
        /\ call_out.status = "returned"
        /\ ProtectedSet \subseteq KeptSet

\* C4 witness: a protected position was kept although an unprotected
\* position with a strictly smaller key norm was evicted.
C4_Witness ==
    /\ compressor.policy = "l2"
    /\ call_out.status = "returned"
    /\ Cardinality(ProtectedSet) <= Capacity
    /\ \E j \in ProtectedSet, k \in (0..(SpanLen - 1)) \ KeptSet :
            /\ j \in KeptSet
            /\ NormSq(call_in.k_val[k + 1]) < NormSq(call_in.k_val[j + 1])

\* C11 as stated: RecentGlobal fails on every span whose length is not
\* exactly the capacity.
C11_Original_RecentGlobalExactSpanOnly ==
    ( /\ compressor.policy = "recent_global"
      /\ call_out.status # "ready"
      /\ SpanLen # Capacity ) =>
        call_out.status = "failed"

\* C11 amended: RecentGlobal does not test the span length. A call on a span
\* of length n fails exactly when global_tokens > capacity (the length
\* assertion), or global_tokens > n, or capacity - global_tokens > 2n (an
\* index outside the buffer); every other call returns capacity keep indices,
\* whether n is below, at or above the capacity.
C11_RecentGlobalFailsOnlyOnBadIndices ==
    ( /\ compressor.policy = "recent_global"
      /\ call_out.status # "ready" ) =>
        /\ call_out.status = "failed" <=>
              \/ compressor.global_tokens > Capacity
              \/ compressor.global_tokens > SpanLen
              \/ Capacity - compressor.global_tokens > 2 * SpanLen
        /\ call_out.status = "returned" => Len(call_out.keep_idxs) = Capacity

\* C11 witness: RecentGlobal returned from a span shorter than the capacity,
\* with a negative keep index that wrapped around the buffer.
C11_Witness ==
    /\ compressor.policy = "recent_global"
    /\ call_out.status = "returned"
    /\ SpanLen < Capacity
    /\ \E i \in 1..Len(call_out.keep_idxs) :
            /\ call_out.keep_idxs[i] < 0
            /\ call_out.k_val[i] = call_in.k_val[call_out.keep_idxs[i] + SpanLen + 1]

---------------------------------------------------------------------------
(* src/generation_utils.py: the generation driver *)

\* the value generate() fills the output buffer with
Sentinel == -1

\* s[:k]
PySliceTo(s, k) ==
    IF k >= 0 THEN SubSeq(s, 1, Min2(k, Len(s)))
    ELSE SubSeq(s, 1, Max2(Len(s) + k, 0))

\* s[k:]
PySliceFrom(s, k) ==
    IF k >= 0 THEN SubSeq(s, k + 1, Len(s))
    ELSE SubSeq(s, Max2(Len(s) + k, 0) + 1, Len(s))

\* torch.argmax over softmax(logits[0, -1]): softmax is increasing, so the
\* argmax of the probabilities is that of the logits; of several maximal
\* entries torch returns the first
ArgMax(logits) ==
    CHOOSE t \in DOMAIN logits :
        \A u \in DOMAIN logits :
            logits[u] < logits[t] \/ (logits[u] = logits[t] /\ t <= u)

\* greedy(logits, next_token): forced says next_token is not None
greedy(logits, forced, next_token) ==
    IF forced THEN next_token ELSE ArgMax(logits)

\* mutant of split_condition: the exact-capacity edge case left out
split_condition_no_edge_case(feed_long_prompts, prompt_length, min_cache_length) ==
    feed_long_prompts /\ prompt_length > min_cache_length - 1

\* generate: the condition under which the prompt is split
split_condition(feed_long_prompts, prompt_length, min_cache_length) ==
    \/ feed_long_prompts /\ prompt_length > min_cache_length - 1
    \/ prompt_length = min_cache_length

\* decode_n_tokens: teacher_force = prefix is not None and i < len(prefix)
teacher_force(has_prefix, prefix, i) == has_prefix /\ i < Len(prefix)

\* mutant of is_terminator: a teacher-forced terminator ends the loop too
is_terminator_also_forced(terminator_ids, next_token, forced) ==
    terminator_ids # {} /\ next_token \in terminator_ids

\* decode_n_tokens: the test that ends the loop early
is_terminator(terminator_ids, next_token, forced) ==
    terminator_ids # {} /\ next_token \in terminator_ids /\ ~forced

\* decode_one_token: assert input_pos.shape[-1] == 1
decode_one_token_accepts(input_pos) == Len(input_pos) = 1

\* mutant of advance_input_pos: the position counter is left where it was
advance_input_pos_stuck(input_pos) == input_pos

\* decode_n_tokens: input_pos += 1
advance_input_pos(input_pos) == [j \in 1..Len(input_pos) |-> input_pos[j] + 1]

\* seq[at : at + len(toks)] = toks (at is the Python index)
WriteAt(seq, at, toks) ==
    [j \in 1..Len(seq) |->
        IF j - 1 >= at /\ j - 1 < at + Len(toks) THEN toks[j - at] ELSE seq[j]]

\* seq[: torch.where(seq == -1)[0][0]] if -1 in seq
TruncateAtSentinel(seq) ==
    IF \E j \in 1..Len(seq) : seq[j] = Sentinel
    THEN SubSeq(seq, 1, (CHOOSE j \in 1..Len(seq) :
                            /\ seq[j] = Sentinel
                            /\ \A k \in 1..(j - 1) : seq[k] # Sentinel) - 1)
    ELSE seq

\* the forward call model(x, input_pos) that returned logits
ForwardCall(x, input_pos, logits) ==
    [n |-> model_calls.n + 1, x |-> x, input_pos |-> input_pos, logits |-> logits]

GenFailed == [gen EXCEPT !.pc = "failed"]

\* generate, up to the call of prefill: the split of a long prompt and the
\* allocation of the output buffer
Generate_Split ==
    /\ gen.pc = "start"
    /\ LET min_cache_length == gen_in.min_cache_length
           max_prompt_len == min_cache_length - 1
           split == split_condition(gen_in.feed_long_prompts, Len(gen_in.prompt),
                                    min_cache_length)
           prompt == IF split THEN PySliceTo(gen_in.prompt, max_prompt_len)
                     ELSE gen_in.prompt
           prefix == IF split THEN PySliceFrom(gen_in.prompt, max_prompt_len)
                     ELSE <<>>
           max_new_tokens == gen_in.max_new_tokens + (IF split THEN Len(prefix) ELSE 0)
           prompt_length == IF split THEN max_prompt_len ELSE Len(gen_in.prompt)
       IN  gen' = [pc |-> "prefill",
                   prompt |-> prompt,
                   has_prefix |-> split,
                   prefix |-> prefix,
                   max_new_tokens |-> max_new_tokens,
                   prompt_length |-> prompt_length,
                   seq |-> WriteAt([j \in 1..(prompt_length + max_new_tokens) |-> Sentinel],
                                   0, prompt),
                   input_pos |-> Arange(prompt_length),
                   cur_token |-> Sentinel,
                   num_new_tokens |-> 0,
                   dprefix |-> <<>>,
                   i |-> 0,
                   new_tokens |-> <<>>,
                   emitted |-> <<>>,
                   forced |-> <<>>,
                   broke |-> FALSE]
    /\ UNCHANGED <<gen_in, model_calls, gen_ret, decode_call>>
    /\ UNCHANGED <<cvars, svars>>

\* generate: prefill on the prompt, the first token written to the buffer,
\* and the entry into decode_n_tokens
Prefill ==
    /\ gen.pc = "prefill"
    /\ IF gen.has_prefix /\ Len(gen.prefix) = 0
       THEN /\ gen' = GenFailed
            /\ UNCHANGED model_calls
       ELSE \E logits \in [Vocab -> LogitLevels] :
            LET next_token == greedy(logits, gen.has_prefix,
                                     IF gen.has_prefix THEN gen.prefix[1] ELSE Sentinel)
            IN  /\ model_calls' = ForwardCall(gen.prompt, gen.input_pos, logits)
                /\ IF gen.prompt_length >= Len(gen.seq)
                   THEN gen' = GenFailed
                   ELSE gen' = [gen EXCEPT
                            !.pc = "decode",
                            !.seq = WriteAt(gen.seq, gen.prompt_length, <<next_token>>),
                            !.emitted = <<next_token>>,
                            !.forced = <<gen.has_prefix>>,
                            !.input_pos = <<gen.prompt_length>>,
                            !.cur_token = next_token,
                            !.num_new_tokens = gen.max_new_tokens - 1,
                            !.dprefix = PySliceFrom(gen.prefix, 1),
                            !.i = 0,
                            !.new_tokens = <<>>]
    /\ UNCHANGED <<gen_in, gen_ret, decode_call>>
    /\ UNCHANGED <<cvars, svars>>

\* decode_n_tokens: one iteration of the loop, with its decode_one_token
Decode_Step ==
    /\ gen.pc = "decode"
    /\ ~gen.broke
    /\ gen.i < gen.num_new_tokens
    /\ IF ~decode_one_token_accepts(gen.input_pos)
       THEN /\ gen' = GenFailed
            /\ UNCHANGED model_calls
       ELSE \E logits \in [Vocab -> LogitLevels] :
            LET tf == teacher_force(gen.has_prefix, gen.dprefix, gen.i)
                next_token == greedy(logits, tf,
                                     IF tf THEN gen.dprefix[gen.i + 1] ELSE Sentinel)
                stop == is_terminator(gen_in.terminator_ids, next_token, tf)
            IN  /\ model_calls' = ForwardCall(<<gen.cur_token>>, gen.input_pos, logits)
                /\ gen' = [gen EXCEPT
                            !.new_tokens = Append(gen.new_tokens, next_token),
                            !.emitted = Append(gen.emitted, next_token),
                            !.forced = Append(gen.forced, tf),
                            !.broke = stop,
                            !.input_pos = IF stop THEN gen.input_pos
                                          ELSE advance_input_pos(gen.input_pos),
                            !.cur_token = IF stop THEN gen.cur_token ELSE next_token,
                            !.i = IF stop THEN gen.i ELSE gen.i + 1]
    /\ UNCHANGED <<gen_in, gen_ret, decode_call>>
    /\ UNCHANGED <<cvars, svars>>

\* decode_n_tokens returns (loop exhausted or broken) and generate writes
\* the tokens to the buffer, truncates it at the first sentinel and returns
Generate_Return ==
    /\ gen.pc = "decode"
    /\ gen.broke \/ gen.i >= gen.num_new_tokens
    /\ LET seq == WriteAt(gen.seq, gen.prompt_length + 1, gen.new_tokens)
       IN  /\ gen' = [gen EXCEPT !.pc = "done", !.seq = TruncateAtSentinel(seq)]
           /\ gen_ret' = TruncateAtSentinel(seq)
    /\ UNCHANGED <<gen_in, model_calls, decode_call>>
    /\ UNCHANGED <<cvars, svars>>

\* decode_one_token called on its own with a position span of any length
Call_decode_one_token ==
    /\ decode_call.status = "ready"
    /\ IF ~decode_one_token_accepts(decode_call.input_pos)
       THEN /\ decode_call' = [decode_call EXCEPT !.status = "failed",
                                                  !.fn = "decode_one_token"]
            /\ UNCHANGED model_calls
       ELSE \E logits \in [Vocab -> LogitLevels] :
            /\ model_calls' = ForwardCall(decode_call.x, decode_call.input_pos, logits)
            /\ decode_call' = [decode_call EXCEPT
                                !.status = "returned",
                                !.fn = "decode_one_token",
                                !.token = greedy(logits, decode_call.forced,
                                                 decode_call.next_token)]
    /\ UNCHANGED <<gen_in, gen, gen_ret>>
    /\ UNCHANGED <<cvars, svars>>

\* model_forward(model, x, input_pos) called on its own: the forward call
\* on whatever position span it is given, the logits returned
Call_model_forward ==
    /\ decode_call.status = "ready"
    /\ \E logits \in [Vocab -> LogitLevels] :
            model_calls' = ForwardCall(decode_call.x, decode_call.input_pos, logits)
    /\ decode_call' = [decode_call EXCEPT !.status = "returned", !.fn = "model_forward"]
    /\ UNCHANGED <<gen_in, gen, gen_ret>>
    /\ UNCHANGED <<cvars, svars>>

\* every sequence over S of length lo..hi
SeqsOf(S, lo, hi) == UNION {[1..n -> S] : n \in lo..hi}

\* A cache of min_cache_length >= 2 slots: the prefill of a split prompt
\* holds min_cache_length - 1 >= 1 tokens.
InitGenerateRun ==
    /\ \E prompt \in SeqsOf(Vocab, 1, MaxPrompt), m \in 2..MaxMinCache,
          n \in 0..MaxNewTokens, feed \in BOOLEAN, terms \in SUBSET Vocab :
            gen_in = [prompt |-> prompt, min_cache_length |-> m,
                      max_new_tokens |-> n, feed_long_prompts |-> feed,
                      terminator_ids |-> terms]
    /\ gen = [pc |-> "start"]
    /\ decode_call = [status |-> "idle"]

\* the arguments of decode_one_token(model, x, input_pos, next_token) or of
\* model_forward(model, x, input_pos), called on their own
InitDecodeOne ==
    /\ \E t \in Vocab, p \in 0..MaxPrompt, len \in 0..MaxDecodeSpan,
          f \in BOOLEAN, nt \in Vocab :
            decode_call = [status |-> "ready", x |-> <<t>>,
                           input_pos |-> RangeSeq(p, p + len),
                           forced |-> f, next_token |-> IF f THEN nt ELSE Sentinel,
                           token |-> Sentinel, fn |-> "none"]
    /\ gen_in = [prompt |-> <<>>]
    /\ gen = [pc |-> "idle"]

InitGenerate ==
    /\ InitGenerateRun \/ InitDecodeOne
    /\ model_calls = [n |-> 0]
    /\ gen_ret = <<>>
    /\ CompressIdle
    /\ NormalizeIdle
    /\ SetupIdle

NextGenerate ==
    \/ Generate_Split \/ Prefill \/ Decode_Step \/ Generate_Return
    \/ Call_decode_one_token \/ Call_model_forward

SpecGenerate == InitGenerate /\ [][NextGenerate]_vars

---------------------------------------------------------------------------
(* Claims about the generation driver, checked under SpecGenerate *)

OrigLen == Len(gen_in.prompt)

Running == gen.pc \in {"decode", "done"}

\* the k-th emitted token is the first that is a terminator and was not
\* teacher-forced
FirstFreeTerminator(k) ==
    /\ k \in 1..Len(gen.emitted)
    /\ gen.emitted[k] \in gen_in.terminator_ids
    /\ ~gen.forced[k]
    /\ \A j \in 1..(k - 1) :
            ~(gen.emitted[j] \in gen_in.terminator_ids /\ ~gen.forced[j])

\* C5: generate splits the prompt iff (feed_long_prompts and the prompt is
\* longer than min_cache_length - 1) or the prompt is exactly min_cache_length
\* long.  A split hands Prefill the first min_cache_length - 1 tokens, keeps
\* the rest in order as the prefix and adds the prefix length to
\* max_new_tokens; otherwise Prefill gets the whole prompt and max_new_tokens
\* is unchanged.  Prefill never runs on exactly min_cache_length tokens.
C5_SplitExactlyWhenNeeded ==
    gen.pc \in {"prefill", "decode", "done", "failed"} =>
        LET m == gen_in.min_cache_length
            shouldSplit == \/ gen_in.feed_long_prompts /\ OrigLen > m - 1
                           \/ OrigLen = m
        IN  /\ gen.has_prefix <=> shouldSplit
            /\ gen.has_prefix =>
                /\ Len(gen.prompt) = m - 1
                /\ \A j \in 1..(m - 1) : gen.prompt[j] = gen_in.prompt[j]
                /\ Len(gen.prefix) = OrigLen - (m - 1)
                /\ \A j \in 1..Len(gen.prefix) : gen.prefix[j] = gen_in.prompt[m - 1 + j]
                /\ gen.max_new_tokens = gen_in.max_new_tokens + Len(gen.prefix)
            /\ ~gen.has_prefix =>
                /\ gen.prompt = gen_in.prompt
                /\ gen.max_new_tokens = gen_in.max_new_tokens
            /\ model_calls.n = 1 =>
                /\ model_calls.x = gen.prompt
                /\ model_calls.input_pos = Arange(Len(gen.prompt))
                /\ Len(model_calls.x) # m

\* C5 witness: the edge case; without feed_long_prompts a prompt of exactly
\* min_cache_length tokens was split and Prefill has run on the head.
C5_Witness ==
    /\ gen.pc = "decode"
    /\ model_calls.n = 1
    /\ ~gen_in.feed_long_prompts
    /\ gen.has_prefix
    /\ OrigLen = gen_in.min_cache_length
    /\ Len(gen.prefix) = 1

\* C6 as stated: with a non-empty terminator set, once the k-th emitted
\* token (k >= 1, the Prefill token being the first) is the first terminator
\* that was not teacher-forced, nothing more is emitted and no further
\* forward call is issued, and the returned sequence is the Prefill input
\* followed by exactly those k tokens, free of the sentinel.
C6_Original_FirstTerminatorHalts ==
    (Running /\ gen_in.terminator_ids # {}) =>
        \A k \in 1..Len(gen.emitted) :
            FirstFreeTerminator(k) =>
                /\ Len(gen.emitted) = k
                /\ model_calls.n = k
                /\ gen.pc = "done" =>
                    /\ gen_ret = gen.prompt \o gen.emitted
                    /\ \A j \in 1..Len(gen_ret) : gen_ret[j] # Sentinel

\* C7: after a split with a prefix of length p, the first p emitted tokens
\* are the prefix in order, all teacher-forced, and none of them ends the
\* generation; every later token is the greedy argmax of the output of its
\* own forward call.  The returned sequence is the complete original prompt
\* followed by at most the caller's max_new_tokens further tokens.
C7_TeacherForcingReplaysPrefix ==
    (Running /\ gen.has_prefix) =>
        LET m == gen_in.min_cache_length
            p == OrigLen - (m - 1)
            e == Len(gen.emitted)
        IN  /\ \A k \in 1..e :
                    IF k <= p
                    THEN gen.forced[k] /\ gen.emitted[k] = gen_in.prompt[m - 1 + k]
                    ELSE ~gen.forced[k]
            /\ model_calls.n = e
            /\ e > p => gen.emitted[e] = ArgMax(model_calls.logits)
            /\ gen.broke => e > p
            /\ gen.pc = "done" =>
                /\ e >= p
                /\ Len(gen_ret) = OrigLen + (e - p)
                /\ SubSeq(gen_ret, 1, OrigLen) = gen_in.prompt
                /\ SubSeq(gen_ret, OrigLen + 1, Len(gen_ret)) = SubSeq(gen.emitted, p + 1, e)
                /\ e - p <= gen_in.max_new_tokens

\* C7 witness: a prefix of two tokens holding a terminator was replayed and
\* the model then chose a token of its own.
C7_Witness ==
    /\ gen.pc = "done"
    /\ gen.has_prefix
    /\ Len(gen.prefix) >= 2
    /\ \E k \in 1..Len(gen.prefix) : gen.prefix[k] \in gen_in.terminator_ids
    /\ Len(gen.emitted) > Len(gen.prefix)

\* C12: after a Prefill over m tokens (one forward call on positions
\* 0..m-1), the k-th decode step (k = 0, 1, ...) is one more forward call,
\* on the single position m + k, fed the token emitted by the step before
\* (the Prefill token for k = 0), whether the step is teacher-forced or
\* free; and decode_one_token handed a position span whose length is not 1
\* fails without a forward call, while a span of length 1 gives one call.
C12_DecodeStepsOnePositionAtATime ==
    /\ Running =>
        LET m == gen.prompt_length
            steps == Len(gen.new_tokens)
        IN  /\ model_calls.n = 1 + steps
            /\ Len(gen.emitted) = 1 + steps
            /\ steps = 0 =>
                    /\ model_calls.input_pos = Arange(m)
                    /\ model_calls.x = gen.prompt
            /\ steps >= 1 =>
                    /\ model_calls.input_pos = <<m + (steps - 1)>>
                    /\ model_calls.x = <<gen.emitted[steps]>>
    /\ (decode_call.status \in {"failed", "returned"}
            /\ decode_call.fn = "decode_one_token") =>
        /\ decode_call.status = "failed" <=> Len(decode_call.input_pos) # 1
        /\ decode_call.status = "failed" => model_calls.n = 0
        /\ decode_call.status = "returned" =>
                /\ model_calls.n = 1
                /\ model_calls.input_pos = decode_call.input_pos
                /\ model_calls.x = decode_call.x

\* C12 witness: a run whose decode steps so far include a teacher-forced
\* one followed by a free one, the last call being on position m + 1.
C12_Witness ==
    /\ gen.pc = "decode"
    /\ Len(gen.new_tokens) = 2
    /\ gen.forced[2] /\ ~gen.forced[3]
    /\ model_calls.n = 3
    /\ model_calls.input_pos = <<gen.prompt_length + 1>>
    /\ model_calls.x = <<gen.emitted[2]>>
    /\ gen.emitted[2] # gen.emitted[1]

---------------------------------------------------------------------------
(* src/generation_utils.py: cache sizing *)
(* A cache length, fraction or whole, is the rational <<num, den>>; the    *)
(* normalized capacity v is kept in the record as <<v, 1>>.                *)

\* normalize_cache_length: the default of multiple_of
multiple_of_default == 8

\* model.find_multiple(n, k): n rounded up to the next multiple of k
find_multiple(n, k) == IF n % k = 0 THEN n ELSE n + k - (n % k)

\* Python round of the exactly represented value num / den >= 0: the nearest
\* integer, a half going to the even neighbour
PyRound(num, den) ==
    LET q == num \div den
        r == num % den
    IN  IF 2 * r < den THEN q
        ELSE IF 2 * r > den THEN q + 1
        ELSE IF q % 2 = 0 THEN q ELSE q + 1

RECURSIVE Pow2(_)
\* 2 ** k for k >= 0
Pow2(k) == IF k <= 0 THEN 1 ELSE 2 * Pow2(k - 1)

RECURSIVE Pow2Mod(_, _)
\* (2 ** e) % mod
Pow2Mod(e, mod) == IF e <= 0 THEN 1 % mod ELSE (2 * Pow2Mod(e - 1, mod)) % mod

RECURSIVE FloorLog2(_, _)
\* floor(log2(num / den)) for num, den > 0: the binary exponent of the float
FloorLog2(num, den) ==
    IF num >= 2 * den THEN FloorLog2(num, 2 * den) + 1
    ELSE IF num < den THEN FloorLog2(2 * num, den) - 1
    ELSE 0

\* The float (IEEE double, 53-bit significand, round to nearest even) that
\* stands for the fraction num / den with num, den > 0 is
\*     num / den + FloatError(num, den) / (den * 2 ** e),
\* e = 52 - FloorLog2(num, den): its significand is num * 2 ** e / den
\* rounded to the nearest integer, and the error is what that rounding adds.
FloatError(num, den) ==
    LET e == 52 - FloorLog2(num, den)
        r == (num * Pow2Mod(e, den)) % den
        quotientOdd == (((num * Pow2Mod(e, 2 * den)) % (2 * den)) - r) \div den = 1
    IN  IF r = 0 THEN 0
        ELSE IF 2 * r < den THEN 0 - r
        ELSE IF 2 * r > den THEN den - r
        ELSE IF quotientOdd THEN den - r ELSE 0 - r

\* round(max_seq_length * max_cache_length) with max_cache_length the float
\* of num / den: the float product, then round's half-to-even.  The exact
\* product m * num / den plus the float's error, rounded to a double, lies
\* on the same side of every half-integer as the exact product unless the
\* exact product is a half-integer h; then the double is h itself when the
\* error is at most half a unit in the last place of h, and the double
\* next to h on the side of the error otherwise.  (Exact while m * den
\* stays below 2 ** 31.)
round_float_product(m, num, den) ==
    LET q == (m * num) \div den
        r == (m * num) % den
        err == FloatError(num, den)
        mag == IF err < 0 THEN 0 - err ELSE err
        a == FloorLog2(num, den)
        b == FloorLog2(2 * q + 1, 2)
    IN  IF 2 * r # den \/ err = 0 THEN PyRound(m * num, den)
        ELSE IF 2 * m * mag * Pow2(a - b) <= den * Pow2(b - a)
             THEN PyRound(m * num, den)
        ELSE IF err > 0 THEN q + 1 ELSE q

\* int(drop_amount * l) with drop_amount the float of num / den >= 0: the
\* float product, truncated.  The double of the product is the product
\* itself or lies beside it, so it has the integer part of the exact
\* l * num / den unless that is a whole number T and the float's error is
\* negative and more than half the gap between T and the double below it
\* (the gap is halved when T is a power of two): then the double is below
\* T and the integer part is T - 1.
trunc_float_product(l, num, den) ==
    LET T == (l * num) \div den
        err == FloatError(num, den)
        a == FloorLog2(num, den)
        b == FloorLog2(T, 1)
        gapHalved == IF Pow2(b) = T THEN 2 ELSE 1
    IN  IF num = 0 \/ (l * num) % den # 0 \/ T = 0 THEN T
        ELSE IF err >= 0 THEN T
        ELSE IF 2 * l * (0 - err) * gapHalved * Pow2(a - b) > den * Pow2(b - a)
             THEN T - 1
        ELSE T

NclFailed == [ok |-> FALSE, val |-> 0]

NclValue(v) == [ok |-> TRUE, val |-> v]

\* mutant of normalize_cache_length: the rounded-up value is not clamped
normalize_cache_length_unclamped(max_cache_length, max_seq_length, multiple_of) ==
    LET num == max_cache_length[1]
        den == max_cache_length[2]
    IN  IF num > 0 /\ num <= den
        THEN NclValue(find_multiple(round_float_product(max_seq_length, num, den),
                                     multiple_of))
        ELSE IF num % den # 0 THEN NclFailed
        ELSE NclValue(find_multiple(Min2(num \div den, max_seq_length), multiple_of))

\* normalize_cache_length(max_cache_length, max_seq_length, multiple_of)
normalize_cache_length(max_cache_length, max_seq_length, multiple_of) ==
    LET num == max_cache_length[1]
        den == max_cache_length[2]
    IN  IF num > 0 /\ num <= den
        THEN NclValue(Min2(find_multiple(round_float_product(max_seq_length, num, den),
                                         multiple_of),
                           max_seq_length))
        ELSE IF num % den # 0 THEN NclFailed
        ELSE NclValue(Min2(find_multiple(Min2(num \div den, max_seq_length),
                                         multiple_of),
                           max_seq_length))

\* mutant of tile: the groups repeated round-robin
tile_round_robin(lengths, tile_size) ==
    [i \in 1..(Len(lengths) * tile_size) |-> lengths[((i - 1) % Len(lengths)) + 1]]

\* [item for item in lengths for _ in range(tile_size)]
tile(lengths, tile_size) ==
    [i \in 1..(Len(lengths) * tile_size) |-> lengths[((i - 1) \div tile_size) + 1]]

RECURSIVE MinOfSeq(_)
\* min(list) of a non-empty list of capacities <<v, 1>>
MinOfSeq(l) ==
    IF Len(l) = 1 THEN l[1][1] ELSE Min2(l[1][1], MinOfSeq(Tail(l)))

RECURSIVE MaxOfSeq(_)
MaxOfSeq(l) ==
    IF Len(l) = 1 THEN l[1][1] ELSE Max2(l[1][1], MaxOfSeq(Tail(l)))

\* mutant of global_tokens_ok: compared with the largest capacity
global_tokens_ok_against_max(global_tokens, lengths) == global_tokens <= MaxOfSeq(lengths)

\* the assertion cache_kwargs["global_tokens"] <= min(cache_kwargs["max_cache_length"])
global_tokens_ok(global_tokens, lengths) == global_tokens <= MinOfSeq(lengths)

\* mutant of derive_drop_amount: the list test omitted, the amounts derived
\* anew whatever drop_amount is
derive_drop_amount_unguarded(drop_amount, lengths) ==
    [is_list |-> TRUE, ratio |-> drop_amount.ratio,
     list |-> [i \in 1..Len(lengths) |->
                    Max2(trunc_float_product(lengths[i][1], drop_amount.ratio[1],
                                             drop_amount.ratio[2]), 1)]]

\* [max(int(drop_amount * l), 1) for l in max_cache_length] unless
\* drop_amount is a list already
derive_drop_amount(drop_amount, lengths) ==
    IF drop_amount.is_list THEN drop_amount
    ELSE [is_list |-> TRUE, ratio |-> drop_amount.ratio,
          list |-> [i \in 1..Len(lengths) |->
                        Max2(trunc_float_product(lengths[i][1], drop_amount.ratio[1],
                                                 drop_amount.ratio[2]), 1)]]

\* tokenizer.special_ids() and tokenizer.punctuation_ids()
tokenizer_token_ids == <<{0}, {1}>>

SetupRejected(kw) ==
    [kw |-> kw, status |-> "rejected", alloc_calls |-> 0, alloc_args |-> <<>>]

\* setup_caches(model, tokenizer, device, max_seq_length, cache_kwargs):
\* the record as it leaves the call, the outcome, and the number and
\* arguments of the calls of model.setup_caches
setup_caches(kw, n_layer, max_seq_length) ==
    LET normed == [i \in 1..Len(kw.max_cache_length) |->
                    normalize_cache_length(kw.max_cache_length[i], max_seq_length,
                                           multiple_of_default)]
        lengths == [i \in 1..Len(normed) |-> <<normed[i].val, 1>>]
        kw1 == [kw EXCEPT !.max_cache_length = lengths]
        tile_size == n_layer \div Len(lengths)
        kw2 == [kw1 EXCEPT !.max_cache_length = tile(lengths, tile_size)]
        kw3 == [kw2 EXCEPT !.drop_amount =
                    derive_drop_amount(kw.drop_amount, kw2.max_cache_length)]
        kw4 == IF kw.cache_strategy = "fastgen"
               THEN [kw3 EXCEPT !.token_ids = tokenizer_token_ids]
               ELSE kw3
    IN  IF \E i \in 1..Len(normed) : ~normed[i].ok THEN SetupRejected(kw)
        ELSE IF n_layer % Len(lengths) # 0 THEN SetupRejected(kw1)
        ELSE IF ~global_tokens_ok(kw.global_tokens, kw2.max_cache_length)
             THEN SetupRejected(kw3)
        ELSE [kw |-> kw4, status |-> "ok", alloc_calls |-> 1, alloc_args |-> kw4]

\* the cache lengths normalize_cache_length is given
LengthSpecs ==
    {<<k, FracDen>> : k \in 1..FracDen}
        \cup {<<w, 1>> : w \in 2..MaxSpecLen}
        \cup {<<3, 2>>, <<5, 2>>}
        \cup {<<11, 20>>, <<22, 40>>, <<27, 46>>, <<9, 14>>, <<15, 22>>}

\* the sequence lengths it is given: the short ones, and longer ones at
\* which the float product of a fraction above falls beside a half
NormalizeSeqLens == (1..MaxSeqLen) \cup {69, 175, 190}

InitNormalize ==
    /\ \E l \in LengthSpecs, m \in NormalizeSeqLens :
            ncl = [status |-> "ready", max_cache_length |-> l, max_seq_length |-> m,
                   result |-> 0]
    /\ SetupIdle
    /\ CompressIdle
    /\ GenIdle

Call_normalize_cache_length ==
    /\ ncl.status = "ready"
    /\ LET r == normalize_cache_length(ncl.max_cache_length, ncl.max_seq_length,
                                       multiple_of_default)
       IN  ncl' = [ncl EXCEPT !.status = IF r.ok THEN "returned" ELSE "failed",
                              !.result = r.val]
    /\ UNCHANGED <<sizer_in, cache_kwargs, setup>>
    /\ UNCHANGED <<cvars, gvars>>

NextNormalize == Call_normalize_cache_length

SpecNormalize == InitNormalize /\ [][NextNormalize]_vars

\* the configurations setup_caches is given
SetupSeqLens == {1, 12, 24, 69}

GroupSpecs == {<<1, 4>>, <<1, 2>>, <<27, 46>>, <<10, 1>>, <<70, 1>>}

GlobalChoices == {0, 8, 9, 16, 17}

DropChoices ==
    {[is_list |-> FALSE, ratio |-> <<1, 2>>, list |-> <<>>],
     [is_list |-> FALSE, ratio |-> <<1, 16>>, list |-> <<>>],
     [is_list |-> FALSE, ratio |-> <<21, 23>>, list |-> <<>>],
     [is_list |-> TRUE, ratio |-> <<0, 1>>, list |-> <<2>>]}

InitSetup ==
    /\ \E groups \in SeqsOf(GroupSpecs, 1, MaxGroups), g \in GlobalChoices,
          d \in DropChoices, st \in {"l2", "fastgen"},
          L \in 1..MaxLayers, m \in SetupSeqLens :
            /\ cache_kwargs = [max_cache_length |-> groups, global_tokens |-> g,
                               drop_amount |-> d, cache_strategy |-> st,
                               token_ids |-> <<>>]
            /\ sizer_in = [n_layer |-> L, max_seq_length |-> m,
                           cache_kwargs |-> cache_kwargs]
    /\ setup = [calls |-> 0, status |-> "ready", alloc_calls |-> 0, alloc_args |-> <<>>]
    /\ NormalizeIdle
    /\ CompressIdle
    /\ GenIdle

Call_setup_caches ==
    /\ setup.calls < MaxSetupCalls
    /\ setup.status \in {"ready", "ok"}
    /\ LET r == setup_caches(cache_kwargs, sizer_in.n_layer, sizer_in.max_seq_length)
       IN  /\ cache_kwargs' = r.kw
           /\ setup' = [calls |-> setup.calls + 1, status |-> r.status,
                        alloc_calls |-> r.alloc_calls, alloc_args |-> r.alloc_args]
    /\ UNCHANGED <<ncl, sizer_in>>
    /\ UNCHANGED <<cvars, gvars>>

NextSetup == Call_setup_caches

SpecSetup == InitSetup /\ [][NextSetup]_vars

---------------------------------------------------------------------------
(* Claims about cache sizing, checked under SpecNormalize and SpecSetup *)

\* a fraction in (0, 1]
IsFraction(l) == l[1] > 0 /\ l[1] <= l[2]

\* a whole number above 1
IsWholeAboveOne(l) == l[1] % l[2] = 0 /\ l[1] \div l[2] > 1

\* a is an integer nearest to num / den
IsNearestInteger(a, num, den) ==
    2 * (a * den - num) <= den /\ 2 * (num - a * den) <= den

\* the integer nearest to num / den, the even one of two equally near
NearestInteger(num, den) ==
    CHOOSE a \in {num \div den, (num \div den) + 1} :
        /\ IsNearestInteger(a, num, den)
        /\ 2 * (a * den - num) = den \/ 2 * (num - a * den) = den => a % 2 = 0

\* the least multiple of k that is >= a
RoundUpToMultiple(a, k) ==
    CHOOSE u \in a..(a + k - 1) : u % k = 0

\* the fraction l is a float exactly: its denominator is a power of two
IsExactFloat(l) == \E k \in 0..30 : Pow2(k) = l[2]

\* C8: for max_seq_length >= 1 and a length that is a fraction in (0, 1] or
\* a whole number above 1, normalize_cache_length (multiple_of = 8) returns
\* r = min(roundUp(a, 8), max_seq_length) with a = round(l * max_seq_length)
\* for a fraction and a = min(l, max_seq_length) for a whole number; so
\* r <= max_seq_length, and r is divisible by 8 or equals max_seq_length.
\* round gives an integer nearest to l * max_seq_length: the only one when
\* the product is not a half, the even one when it is a half and l is a
\* float exactly, and one of the two neighbours of the half otherwise.
C8_NormalizeRoundsUpThenClamps ==
    ( /\ ncl.status \in {"returned", "failed"}
      /\ IsFraction(ncl.max_cache_length) \/ IsWholeAboveOne(ncl.max_cache_length) ) =>
        LET l == ncl.max_cache_length
            m == ncl.max_seq_length
            rounded == IF IsExactFloat(l) THEN {NearestInteger(l[1] * m, l[2])}
                       ELSE {a \in {(l[1] * m) \div l[2], ((l[1] * m) \div l[2]) + 1} :
                                IsNearestInteger(a, l[1] * m, l[2])}
            as == IF IsFraction(l) THEN rounded ELSE {Min2(l[1] \div l[2], m)}
        IN  /\ ncl.status = "returned"
            /\ \E a \in as : ncl.result = Min2(RoundUpToMultiple(a, 8), m)
            /\ ncl.result <= m
            /\ ncl.result % 8 = 0 \/ ncl.result = m

\* C8 witness: a proper fraction whose rounding up to a multiple of 8 went
\* past max_seq_length, so the result is max_seq_length, not a multiple of 8.
C8_Witness ==
    /\ ncl.status = "returned"
    /\ ncl.max_cache_length[1] < ncl.max_cache_length[2]
    /\ ncl.result = ncl.max_seq_length
    /\ ncl.result % 8 # 0
    /\ ncl.result > 8

\* the capacity setup_caches is to give layer i (0-based) of the first call:
\* the normalized length of group floor(i / (n_layer / groups))
ExpectedLayerCapacity(i) ==
    LET groups == sizer_in.cache_kwargs.max_cache_length
        block == sizer_in.n_layer \div Len(groups)
    IN  normalize_cache_length(groups[(i \div block) + 1], sizer_in.max_seq_length, 8).val

\* the smallest normalized capacity of the groups first given
SmallestGroupCapacity ==
    LET groups == sizer_in.cache_kwargs.max_cache_length
    IN  CHOOSE v \in {normalize_cache_length(groups[j], sizer_in.max_seq_length, 8).val
                        : j \in 1..Len(groups)} :
            \A j \in 1..Len(groups) :
                v <= normalize_cache_length(groups[j], sizer_in.max_seq_length, 8).val

\* C9: a successful setup_caches leaves one capacity per layer, layer i
\* having the normalized capacity of group floor(i / (n_layer / groups)):
\* contiguous blocks in the configured order.
C9_CapacitiesInContiguousBlocks ==
    (setup.calls = 1 /\ setup.status = "ok") =>
        /\ sizer_in.n_layer % Len(sizer_in.cache_kwargs.max_cache_length) = 0
        /\ Len(cache_kwargs.max_cache_length) = sizer_in.n_layer
        /\ \A i \in 0..(sizer_in.n_layer - 1) :
                cache_kwargs.max_cache_length[i + 1] = <<ExpectedLayerCapacity(i), 1>>

\* C9 witness: two groups of different capacity over four layers.
C9_Witness ==
    /\ setup.calls = 1
    /\ setup.status = "ok"
    /\ Len(sizer_in.cache_kwargs.max_cache_length) = 2
    /\ sizer_in.n_layer = 4
    /\ cache_kwargs.max_cache_length[1] = cache_kwargs.max_cache_length[2]
    /\ cache_kwargs.max_cache_length[2] # cache_kwargs.max_cache_length[3]
    /\ cache_kwargs.max_cache_length[3] = cache_kwargs.max_cache_length[4]

\* C10: setup_caches rejects when n_layer is not divisible by the number of
\* groups or global_tokens exceeds the smallest normalized capacity; a
\* rejected call never calls model.setup_caches; otherwise the call
\* succeeds and calls it exactly once with the expanded capacities.
C10_RejectsWithoutAllocating ==
    setup.calls = 1 =>
        LET G == Len(sizer_in.cache_kwargs.max_cache_length)
            indivisible == sizer_in.n_layer % G # 0
            tooManyGlobal == sizer_in.cache_kwargs.global_tokens > SmallestGroupCapacity
        IN  /\ (indivisible \/ tooManyGlobal) => setup.status = "rejected"
            /\ setup.status = "rejected" =>
                    setup.alloc_calls = 0 /\ setup.alloc_args = <<>>
            /\ ~(indivisible \/ tooManyGlobal) =>
                /\ setup.status = "ok"
                /\ setup.alloc_calls = 1
                /\ Len(setup.alloc_args.max_cache_length) = sizer_in.n_layer
                /\ \A i \in 0..(sizer_in.n_layer - 1) :
                        setup.alloc_args.max_cache_length[i + 1]
                            = <<ExpectedLayerCapacity(i), 1>>

\* C10 witness: the groups divide the layers, and the call was rejected
\* because global_tokens lies between the smallest and the largest capacity.
C10_Witness ==
    /\ setup.calls = 1
    /\ setup.status = "rejected"
    /\ setup.alloc_calls = 0
    /\ sizer_in.n_layer % Len(sizer_in.cache_kwargs.max_cache_length) = 0
    /\ sizer_in.cache_kwargs.global_tokens > SmallestGroupCapacity
    /\ \E i \in 0..(sizer_in.n_layer - 1) :
            sizer_in.cache_kwargs.global_tokens <= ExpectedLayerCapacity(i)

\* the drop amounts setup_caches may derive for layer i (0-based) from a
\* drop ratio: max(floor(ratio * capacity), 1), the product being a float
\* product: when the ratio is not a float exactly and ratio * capacity is a
\* whole number T, the float product may lie just below T and give T - 1
ExpectedDropAmounts(i) ==
    LET ratio == sizer_in.cache_kwargs.drop_amount.ratio
        a == ratio[1] * ExpectedLayerCapacity(i)
        fl == IF a >= ratio[2]
              THEN CHOOSE q \in 1..a : q * ratio[2] <= a /\ a < (q + 1) * ratio[2]
              ELSE 0
        below == IF a % ratio[2] = 0 /\ ~IsExactFloat(ratio) THEN {fl - 1} ELSE {}
    IN  {IF v >= 1 THEN v ELSE 1 : v \in {fl} \cup below}

\* C13: once setup_caches has succeeded, a further call on the record it
\* left (same max_seq_length and n_layer) succeeds again, and after every
\* successful call, the first as the later ones, the record holds the same
\* per-layer capacities (those of the first expansion) and the same drop
\* amounts: max(floor(ratio * capacity), 1) per layer when derived (of the
\* float product), the list first given when explicit.
C13_SetupCachesIdempotent ==
    /\ [](/\ setup.calls >= 2 => setup.status = "ok"
          /\ (setup.calls >= 1 /\ setup.status = "ok") =>
                /\ Len(cache_kwargs.max_cache_length) = sizer_in.n_layer
                /\ \A i \in 0..(sizer_in.n_layer - 1) :
                        cache_kwargs.max_cache_length[i + 1]
                            = <<ExpectedLayerCapacity(i), 1>>
                /\ cache_kwargs.drop_amount.is_list
                /\ IF sizer_in.cache_kwargs.drop_amount.is_list
                   THEN cache_kwargs.drop_amount = sizer_in.cache_kwargs.drop_amount
                   ELSE /\ Len(cache_kwargs.drop_amount.list) = sizer_in.n_layer
                        /\ \A i \in 0..(sizer_in.n_layer - 1) :
                                cache_kwargs.drop_amount.list[i + 1]
                                    \in ExpectedDropAmounts(i))
    /\ [][(setup.calls >= 1 /\ setup.status = "ok") =>
                /\ setup'.status = "ok"
                /\ cache_kwargs'.max_cache_length = cache_kwargs.max_cache_length
                /\ cache_kwargs'.drop_amount = cache_kwargs.drop_amount]_vars

\* C13 witness: a second successful call on a record whose first call had
\* expanded two groups over four layers and derived drop amounts, one of
\* them above the floor of 1.
C13_Witness ==
    /\ setup.calls = 2
    /\ setup.status = "ok"
    /\ Len(sizer_in.cache_kwargs.max_cache_length) = 2
    /\ sizer_in.n_layer = 4
    /\ ~sizer_in.cache_kwargs.drop_amount.is_list
    /\ cache_kwargs.max_cache_length[1] # cache_kwargs.max_cache_length[4]
    /\ cache_kwargs.drop_amount.list[1] # cache_kwargs.drop_amount.list[4]
    /\ \E i \in 1..4 : cache_kwargs.drop_amount.list[i] > 1

===========================================================================
